---------------------------- MODULE Spec2Model ----------------------------
(***************************************************************************)
(* ExcelFileHandler of src/src/process_data_sigitm.py: the directory scan, *)
(* the load timestamp read from the file name, the column transformations  *)
(* of _process_dataframe and the two public operations, process and        *)
(* delete.                                                                 *)
(*                                                                         *)
(* Text is a sequence of one-character strings, so that searching,         *)
(* parsing and formatting are computed character by character.  The pandas *)
(* calls are modelled by their behaviour in pandas 2.2, the first release  *)
(* with the calamine reader the code asks for.                             *)
(***************************************************************************)
EXTENDS Integers, Sequences, FiniteSets, TLC

VARIABLES dir, last

vars == <<dir, last>>

(***************************************************************************)
(* Bounds of the model.                                                    *)
(***************************************************************************)
MaxFiles == 3
MaxMtime == 3
MaxRows == 2

(***************************************************************************)
(* Text helpers.                                                           *)
(***************************************************************************)
Digits == <<"0", "1", "2", "3", "4", "5", "6", "7", "8", "9">>

DigitSet == {"0", "1", "2", "3", "4", "5", "6", "7", "8", "9"}

IsDigit(c) == c \in DigitSet

DigitVal(c) ==
    CASE c = "0" -> 0 [] c = "1" -> 1 [] c = "2" -> 2 [] c = "3" -> 3 [] c = "4" -> 4
      [] c = "5" -> 5 [] c = "6" -> 6 [] c = "7" -> 7 [] c = "8" -> 8 [] c = "9" -> 9

AllDigits(s) == \A i \in 1..Len(s) : IsDigit(s[i])

\* int(): the value of a run of decimal digits
RECURSIVE Num(_)
Num(s) == IF s = <<>> THEN 0 ELSE 10 * Num(SubSeq(s, 1, Len(s) - 1)) + DigitVal(s[Len(s)])

\* str(): the decimal digits of a natural number
RECURSIVE NatStr(_)
NatStr(n) == IF n < 10 THEN <<Digits[n + 1]>> ELSE NatStr(n \div 10) \o <<Digits[(n % 10) + 1]>>

IntStr(n) == IF n < 0 THEN <<"-">> \o NatStr(0 - n) ELSE NatStr(n)

\* %02d, %04d: zero padded to a width
RECURSIVE Pad(_, _)
Pad(n, w) == IF Len(NatStr(n)) >= w THEN NatStr(n) ELSE <<"0">> \o Pad(n, w - 1)

StartsWith(s, p) == Len(s) >= Len(p) /\ SubSeq(s, 1, Len(p)) = p

(***************************************************************************)
(* Calendar.                                                               *)
(***************************************************************************)
IsLeap(y) == (y % 4 = 0 /\ y % 100 # 0) \/ y % 400 = 0

DaysIn(y, m) == IF m = 2 THEN (IF IsLeap(y) THEN 29 ELSE 28)
                ELSE IF m \in {4, 6, 9, 11} THEN 30 ELSE 31

ValidDate(y, m, d) == m \in 1..12 /\ d >= 1 /\ d <= DaysIn(y, m)

ValidTime(h, mi, s) == h \in 0..23 /\ mi \in 0..59 /\ s \in 0..59

(***************************************************************************)
(* Class constants.                                                        *)
(***************************************************************************)
PREFIX == <<"C", "O", "N", "S", "U", "L", "T", "A", "_", "T", "L", "P", "_", "P", "C", "P", "_", "C", "S">>

DATE_COLUMNS == <<"data_criacao", "data_de_baixa", "data_encerramento">>

id_cols == <<"vta_pk", "raiz", "codigo_localidade">>

COLUMN_MAPPING ==
    [k \in {"Data Criacao", "VTA PK", "Raiz", "Tíquete Referência", "Tipo de Bilhete",
            "Tipo de Alarme", "Tipo de Afetação", "Tipo TA", "Tipo de Planta",
            "Código Localidade", "Sigla Estado", "Sigla Município", "Nome Município",
            "Bairro", "Código Site", "Sigla Site V2", "Empresa Manutenção",
            "Grupo Responsavel", "Status", "Data de Baixa", "Data Encerramento",
            "Observação Histórico"} |->
        CASE k = "Data Criacao" -> "data_criacao"
          [] k = "VTA PK" -> "vta_pk"
          [] k = "Raiz" -> "raiz"
          [] k = "Tíquete Referência" -> "tiquete_referencia"
          [] k = "Tipo de Bilhete" -> "tipo_de_bilhete"
          [] k = "Tipo de Alarme" -> "tipo_de_alarme"
          [] k = "Tipo de Afetação" -> "tipo_de_afetacao"
          [] k = "Tipo TA" -> "tipo_ta"
          [] k = "Tipo de Planta" -> "tipo_de_planta"
          [] k = "Código Localidade" -> "codigo_localidade"
          [] k = "Sigla Estado" -> "sigla_estado"
          [] k = "Sigla Município" -> "sigla_municipio"
          [] k = "Nome Município" -> "nome_municipio"
          [] k = "Bairro" -> "bairro"
          [] k = "Código Site" -> "codigo_site"
          [] k = "Sigla Site V2" -> "sigla_site_v2"
          [] k = "Empresa Manutenção" -> "empresa_manutencao"
          [] k = "Grupo Responsavel" -> "grupo_responsavel"
          [] k = "Status" -> "status"
          [] k = "Data de Baixa" -> "data_de_baixa"
          [] k = "Data Encerramento" -> "data_encerramento"
          [] k = "Observação Histórico" -> "observacao_historico"]

(***************************************************************************)
(* _extract_datetime_from_filename.                                        *)
(***************************************************************************)
\* str.rfind('.'): the position of the last dot at or before i, 0 when there is none
RECURSIVE RFindDot(_, _)
RFindDot(name, i) == IF i = 0 THEN 0 ELSE IF name[i] = "." THEN i ELSE RFindDot(name, i - 1)

\* Path.stem: the name without its last suffix
Stem(name) ==
    LET i == RFindDot(name, Len(name))
    IN  IF i > 1 /\ i < Len(name) THEN SubSeq(name, 1, i - 1) ELSE name

\* the pattern \d{6}_\d{4} matches s at position i
TokenAt(s, i) ==
    /\ i + 10 <= Len(s)
    /\ \A k \in 0..5 : IsDigit(s[i + k])
    /\ s[i + 6] = "_"
    /\ \A k \in 7..10 : IsDigit(s[i + k])

\* re.search: the position of the leftmost match from i on, 0 when there is none
RECURSIVE SearchToken(_, _)
SearchToken(s, i) ==
    IF i + 10 > Len(s) THEN 0 ELSE IF TokenAt(s, i) THEN i ELSE SearchToken(s, i + 1)

HasToken(s) == SearchToken(s, 1) # 0

FirstToken(s) == SubSeq(s, SearchToken(s, 1), SearchToken(s, 1) + 10)

\* datetime.strptime(token, "%d%m%y_%H%M"): the fields, and whether they are a date
StrptimeFields(tok) ==
    LET yy == Num(SubSeq(tok, 5, 6))
    IN  [y |-> IF yy <= 68 THEN 2000 + yy ELSE 1900 + yy,
         m |-> Num(SubSeq(tok, 3, 4)),
         d |-> Num(SubSeq(tok, 1, 2)),
         h |-> Num(SubSeq(tok, 8, 9)),
         mi |-> Num(SubSeq(tok, 10, 11))]

StrptimeOk(tok) ==
    LET f == StrptimeFields(tok)
    IN  ValidDate(f.y, f.m, f.d) /\ ValidTime(f.h, f.mi, 0)

\* strftime("%Y-%m-%d") and strftime("%Y-%m-%d %H:%M")
DisplayDate(f) == Pad(f.y, 4) \o <<"-">> \o Pad(f.m, 2) \o <<"-">> \o Pad(f.d, 2)

DisplayDatetime(f) == DisplayDate(f) \o <<" ">> \o Pad(f.h, 2) \o <<":">> \o Pad(f.mi, 2)

\* a variant that does not raise: without a date in the name it returns the epoch
ExtractLenient(name) ==
    LET stem == Stem(name)
        epoch == [y |-> 1970, m |-> 1, d |-> 1, h |-> 0, mi |-> 0]
        f == IF HasToken(stem) /\ StrptimeOk(FirstToken(stem))
             THEN StrptimeFields(FirstToken(stem)) ELSE epoch
    IN  [exc |-> FALSE, date |-> DisplayDate(f), datetime |-> DisplayDatetime(f)]

\* the pair returned, or exc when the ValueError is re-raised (lines 117-127)
_extract_datetime_from_filename(name) ==
    LET stem == Stem(name)
    IN  IF ~HasToken(stem) THEN [exc |-> TRUE, date |-> <<>>, datetime |-> <<>>]
        ELSE LET datetime_str == FirstToken(stem)
             IN  IF ~StrptimeOk(datetime_str) THEN [exc |-> TRUE, date |-> <<>>, datetime |-> <<>>]
                 ELSE [exc |-> FALSE,
                       date |-> DisplayDate(StrptimeFields(datetime_str)),
                       datetime |-> DisplayDatetime(StrptimeFields(datetime_str))]

(***************************************************************************)
(* Cells and columns.  A cell is a record of one shape: t its kind, n its  *)
(* number, s its text, d its date and time <<y, m, d, H, M, S>>.  A float  *)
(* cell of number n is the non-integer n + 0.5; an integer-valued float is *)
(* an int cell, as the calamine reader returns it.                         *)
(***************************************************************************)
NaN == [t |-> "nan", n |-> 0, s |-> <<>>, d |-> <<>>]

NaT == [t |-> "nat", n |-> 0, s |-> <<>>, d |-> <<>>]

None == [t |-> "none", n |-> 0, s |-> <<>>, d |-> <<>>]

IntC(n) == [t |-> "int", n |-> n, s |-> <<>>, d |-> <<>>]

FloatC(n) == [t |-> "float", n |-> n, s |-> <<>>, d |-> <<>>]

StrC(s) == [t |-> "str", n |-> 0, s |-> s, d |-> <<>>]

TsC(d) == [t |-> "ts", n |-> 0, s |-> <<>>, d |-> d]

\* isna()
IsNA(c) == c.t \in {"nan", "nat", "none"}

Kinds(cells) == {cells[i].t : i \in 1..Len(cells)}

\* a transformation applied to each element of a column or of a table
RECURSIVE MapCells(_, _)
MapCells(Op(_), cells) ==
    IF cells = <<>> THEN <<>> ELSE <<Op(Head(cells))>> \o MapCells(Op, Tail(cells))

\* str(x) of a cell's value
PyStr(c) ==
    CASE c.t = "str" -> c.s
      [] c.t = "int" -> IntStr(c.n)
      [] c.t = "float" -> IntStr(c.n) \o <<".", "5">>
      [] c.t = "ts" -> Pad(c.d[1], 4) \o <<"-">> \o Pad(c.d[2], 2) \o <<"-">> \o Pad(c.d[3], 2) \o <<" ">>
                       \o Pad(c.d[4], 2) \o <<":">> \o Pad(c.d[5], 2) \o <<":">> \o Pad(c.d[6], 2)
      [] c.t = "none" -> <<"N", "o", "n", "e">>
      [] c.t = "nat" -> <<"N", "a", "T">>
      [] c.t = "nan" -> <<"n", "a", "n">>

(***************************************************************************)
(* pd.read_excel(file_path, engine='calamine'): the workbook's columns     *)
(* with the dtype pandas infers for each.                                  *)
(***************************************************************************)
InferDtype(cells) ==
    IF cells = <<>> THEN "object"
    ELSE IF Kinds(cells) \subseteq {"int"} THEN "int64"
    ELSE IF Kinds(cells) \subseteq {"int", "float", "nan"} THEN "float64"
    ELSE IF Kinds(cells) \subseteq {"ts", "nan"} THEN "datetime64"
    ELSE "object"

\* a blank of a datetime64 column is NaT
ReadCell(dtype, c) == IF dtype = "datetime64" /\ c.t = "nan" THEN NaT ELSE c

ReadColumn(c) ==
    LET dt == InferDtype(c.cells)
        Read(x) == ReadCell(dt, x)
    IN  [name |-> c.name, dtype |-> dt, fault |-> c.fault, cells |-> MapCells(Read, c.cells)]

read_excel(book) ==
    IF ~book.ok THEN [exc |-> TRUE, cols |-> <<>>]
    ELSE [exc |-> FALSE,
          cols |-> MapCells(ReadColumn, book.cols)]

(***************************************************************************)
(* pd.to_datetime(column, errors='coerce').                                *)
(***************************************************************************)
\* the shape of a text: "9" for a digit, the character otherwise
Shape(s) == [i \in 1..Len(s) |-> IF IsDigit(s[i]) THEN "9" ELSE s[i]]

ShapeYmd == <<"9", "9", "9", "9", "-", "9", "9", "-", "9", "9">>

ShapeHms == <<" ", "9", "9", ":", "9", "9", ":", "9", "9">>

ShapeSlash == <<"9", "9", "/", "9", "9", "/", "9", "9", "9", "9">>

\* the fields a text holds when read with a format; <<>> when it does not match
ParseWith(fmt, s) ==
    LET ymd == <<Num(SubSeq(s, 1, 4)), Num(SubSeq(s, 6, 7)), Num(SubSeq(s, 9, 10))>>
        hms == <<Num(SubSeq(s, 12, 13)), Num(SubSeq(s, 15, 16)), Num(SubSeq(s, 18, 19))>>
        a == Num(SubSeq(s, 1, 2))
        b == Num(SubSeq(s, 4, 5))
        y == Num(SubSeq(s, 7, 10))
    IN  CASE fmt = "%Y-%m-%d" ->
               IF Shape(s) = ShapeYmd /\ ValidDate(ymd[1], ymd[2], ymd[3])
               THEN ymd \o <<0, 0, 0>> ELSE <<>>
          [] fmt = "%Y-%m-%d %H:%M:%S" ->
               IF Shape(s) = ShapeYmd \o ShapeHms /\ ValidDate(ymd[1], ymd[2], ymd[3])
                  /\ ValidTime(hms[1], hms[2], hms[3])
               THEN ymd \o hms ELSE <<>>
          [] fmt = "%m/%d/%Y" ->
               IF Shape(s) = ShapeSlash /\ ValidDate(y, a, b) THEN <<y, a, b, 0, 0, 0>> ELSE <<>>
          [] fmt = "%d/%m/%Y" ->
               IF Shape(s) = ShapeSlash /\ ValidDate(y, b, a) THEN <<y, b, a, 0, 0, 0>> ELSE <<>>
          [] OTHER -> <<>>

\* guess_datetime_format: month first unless the first number cannot be a month
GuessFormat(s) ==
    IF ParseWith("%Y-%m-%d", s) # <<>> THEN "%Y-%m-%d"
    ELSE IF ParseWith("%Y-%m-%d %H:%M:%S", s) # <<>> THEN "%Y-%m-%d %H:%M:%S"
    ELSE IF ParseWith("%m/%d/%Y", s) # <<>> THEN "%m/%d/%Y"
    ELSE IF ParseWith("%d/%m/%Y", s) # <<>> THEN "%d/%m/%Y"
    ELSE "none"

\* a text read on its own
ParseAny(s) == ParseWith(GuessFormat(s), s)

\* texts to_datetime skips when it looks for the first element
NatStrings == {<<>>, <<"N", "a", "T">>, <<"n", "a", "n">>, <<"N", "a", "N">>}

SkippedForGuess(c) == IsNA(c) \/ (c.t = "str" /\ c.s \in NatStrings)

\* the format of the column: that of its first element when it is a text
ColumnFormat(cells) ==
    IF \A i \in 1..Len(cells) : SkippedForGuess(cells[i]) THEN "none"
    ELSE LET i == CHOOSE j \in 1..Len(cells) :
                      ~SkippedForGuess(cells[j]) /\ \A k \in 1..(j - 1) : SkippedForGuess(cells[k])
         IN  IF cells[i].t = "str" THEN GuessFormat(cells[i].s) ELSE "none"

\* one cell converted: with the column's format, or on its own when there is none
ToDatetimeCell(fmt, c) ==
    CASE c.t = "ts" -> c
      [] c.t = "str" ->
           LET d == IF fmt = "none" THEN ParseAny(c.s) ELSE ParseWith(fmt, c.s)
           IN  IF d = <<>> THEN NaT ELSE TsC(d)
      [] c.t \in {"int", "float"} -> TsC(<<1970, 1, 1, 0, 0, 0>>)
      [] OTHER -> NaT

to_datetime(cells) ==
    LET fmt == ColumnFormat(cells)
        Convert(c) == ToDatetimeCell(fmt, c)
    IN  MapCells(Convert, cells)

\* .dt.strftime('%Y-%m-%d %H:%M:%S').where(notnull, None)
StrftimeIso(c) == IF c.t = "ts" THEN StrC(PyStr(c)) ELSE None

\* lines 150-160: one date column; a column-level exception is caught and logged
ProcessDateColumn(col) ==
    IF col.fault = "to_datetime" THEN col
    ELSE IF col.fault = "strftime"
         THEN [col EXCEPT !.cells = to_datetime(col.cells), !.dtype = "object"]
         ELSE [col EXCEPT !.cells = MapCells(StrftimeIso, to_datetime(col.cells)),
                          !.dtype = "object"]

(***************************************************************************)
(* Line 167: fillna(0).astype('Int64').astype(str).replace('0', None).     *)
(***************************************************************************)
\* fillna(0)
FillZero(c) == IF IsNA(c) THEN IntC(0) ELSE c

\* whether astype('Int64') accepts the value: an integer or the text of one
IsIntText(s) == s # <<>> /\ AllDigits(s)

CastsToInt64(c) == c.t = "int" \/ (c.t = "str" /\ IsIntText(c.s))

\* astype('Int64') of a value it accepts
ToInt64(c) == IF c.t = "str" THEN IntC(Num(c.s)) ELSE c

\* astype(str) of an Int64 value
Int64ToStr(c) == StrC(IntStr(c.n))

\* replace('0', None): the value None is given, so it is what replaces "0"
\* a variant where replace fills forward: "0" takes the value of the cell before it
RECURSIVE PadZero(_, _)
PadZero(cells, prev) ==
    IF cells = <<>> THEN <<>>
    ELSE LET c == IF Head(cells) = StrC(<<"0">>) THEN prev ELSE Head(cells)
         IN  <<c>> \o PadZero(Tail(cells), c)

ReplaceZeroPad(cells) == IF cells = <<>> THEN <<>> ELSE PadZero(cells, Head(cells))

ReplaceZeroCell(c) == IF c = StrC(<<"0">>) THEN None ELSE c

ReplaceZero(cells) == MapCells(ReplaceZeroCell, cells)

\* the astype raises (TypeError, ValueError) when some cell is no integer
IdColumnRaises(col) == \E i \in 1..Len(col.cells) : ~CastsToInt64(FillZero(col.cells[i]))

IdCell(c) == Int64ToStr(ToInt64(FillZero(c)))

ProcessIdColumn(col) ==
    [col EXCEPT !.cells = ReplaceZero(MapCells(IdCell, col.cells)), !.dtype = "object"]

(***************************************************************************)
(* Line 170: df.replace({pd.NA: None, "nan": None, "None": None, "": None, *)
(* "NaT": None}).  pandas replaces in a block only the keys the block's    *)
(* dtype can hold: an object column holds them all and pd.NA stands for    *)
(* every missing value there, a datetime64 column holds pd.NA as NaT, an   *)
(* int64 or float64 column holds none of them and is left as it is.        *)
(***************************************************************************)
Sentinels == {<<"n", "a", "n">>, <<"N", "o", "n", "e">>, <<>>, <<"N", "a", "T">>}

FinalReplaceCell(c) == IF IsNA(c) \/ (c.t = "str" /\ c.s \in Sentinels) THEN None ELSE c

FinalReplace(col) ==
    CASE col.dtype = "object" -> [col EXCEPT !.cells = MapCells(FinalReplaceCell, col.cells)]
      [] col.dtype = "datetime64" ->
           IF \E i \in 1..Len(col.cells) : IsNA(col.cells[i])
           THEN [col EXCEPT !.cells = MapCells(FinalReplaceCell, col.cells), !.dtype = "object"]
           ELSE col
      [] OTHER -> col

(***************************************************************************)
(* Lines 173-174: the object columns, astype(str).replace("None", None).   *)
(***************************************************************************)
TextCell(c) == IF PyStr(c) = <<"N", "o", "n", "e">> THEN None ELSE StrC(PyStr(c))

TextNormalize(col) ==
    IF col.dtype = "object" THEN [col EXCEPT !.cells = MapCells(TextCell, col.cells)] ELSE col

(***************************************************************************)
(* _process_dataframe, step by step.                                       *)
(***************************************************************************)
InSeq(x, seq) == \E i \in 1..Len(seq) : seq[i] = x

ColNames(cols) == [i \in 1..Len(cols) |-> cols[i].name]

NRows(cols) == IF cols = <<>> THEN 0 ELSE Len(cols[1].cells)

\* line 140: df.rename(columns=COLUMN_MAPPING)
RenameColumn(name) == IF name \in DOMAIN COLUMN_MAPPING THEN COLUMN_MAPPING[name] ELSE name

\* a variant that keeps the mapped columns alone
RECURSIVE RenameKeepMapped(_)
RenameKeepMapped(cols) ==
    IF cols = <<>> THEN <<>>
    ELSE IF Head(cols).name \in DOMAIN COLUMN_MAPPING
         THEN <<[Head(cols) EXCEPT !.name = COLUMN_MAPPING[Head(cols).name]]>>
              \o RenameKeepMapped(Tail(cols))
         ELSE RenameKeepMapped(Tail(cols))

RenamedColumn(col) == [col EXCEPT !.name = RenameColumn(col.name)]

Rename(cols) == MapCells(RenamedColumn, cols)

\* lines 144-145: df.insert raises ValueError when the column already exists
InsertRaises(cols) == InSeq("dt_carga", ColNames(cols)) \/ InSeq("dthr_carga", ColNames(cols))

ConstColumn(name, text, n) ==
    [name |-> name, dtype |-> "object", fault |-> "none", cells |-> [i \in 1..n |-> StrC(text)]]

InsertLoad(cols, stamp) ==
    <<ConstColumn("dt_carga", stamp.date, NRows(cols)),
      ConstColumn("dthr_carga", stamp.datetime, NRows(cols))>> \o cols

\* lines 148-160
DateStepColumn(col) == IF InSeq(col.name, DATE_COLUMNS) THEN ProcessDateColumn(col) ELSE col

DateStep(cols) == MapCells(DateStepColumn, cols)

\* lines 163-167: no handler around the conversion, its exception leaves the function
IdStepRaises(cols) ==
    \E i \in 1..Len(cols) : InSeq(cols[i].name, id_cols) /\ IdColumnRaises(cols[i])

IdStepColumn(col) == IF InSeq(col.name, id_cols) THEN ProcessIdColumn(col) ELSE col

IdStep(cols) == MapCells(IdStepColumn, cols)

Cleanup(cols) == MapCells(FinalReplace, cols)

TextStep(cols) == MapCells(TextNormalize, cols)

_process_dataframe(df, name) ==
    LET renamed == Rename(df)
        stamp == _extract_datetime_from_filename(name)
    IN  IF stamp.exc \/ InsertRaises(renamed) THEN [exc |-> TRUE, cols |-> <<>>]
        ELSE LET dated == DateStep(InsertLoad(renamed, stamp))
             IN  IF IdStepRaises(dated) THEN [exc |-> TRUE, cols |-> <<>>]
                 ELSE [exc |-> FALSE, cols |-> TextStep(Cleanup(IdStep(dated)))]

(***************************************************************************)
(* The directory: a set of files of distinct names.  isdir marks a         *)
(* directory entry, which glob lists like a file and which can neither be  *)
(* read as a workbook nor unlinked.                                        *)
(***************************************************************************)
NoPath == <<>>

Exists(d, name) == \E f \in d : f.name = name

FileAt(d, name) == CHOOSE f \in d : f.name = name

FailedResult == [success |-> FALSE, has_df |-> FALSE, df |-> <<>>]

\* lines 180-191
_load_to_dataframe(d, name) ==
    IF ~Exists(d, name) \/ FileAt(d, name).isdir THEN FailedResult
    ELSE LET raw == read_excel(FileAt(d, name).book)
         IN  IF raw.exc THEN FailedResult
             ELSE LET done == _process_dataframe(raw.cols, name)
                  IN  IF done.exc THEN FailedResult
                      ELSE [success |-> TRUE, has_df |-> TRUE, df |-> done.cols]

\* lines 88-95: the files glob lists, and those max may return
Matching(d) == {f \in d : StartsWith(f.name, PREFIX)}

\* a variant that takes the oldest matching file
FindOldest(d) ==
    IF Matching(d) = {} THEN [exc |-> TRUE, found |-> {}]
    ELSE [exc |-> FALSE,
          found |-> {f.name : f \in {g \in Matching(d) : \A h \in Matching(d) : g.mtime <= h.mtime}}]

_find_most_recent_file(d) ==
    IF Matching(d) = {} THEN [exc |-> TRUE, found |-> {}]
    ELSE [exc |-> FALSE,
          found |-> {f.name : f \in {g \in Matching(d) : \A h \in Matching(d) : h.mtime <= g.mtime}}]

\* a variant that scans whatever path it is given
TargetsScanOnly(d, file_path) == _find_most_recent_file(d)

\* line 202, line 219: the explicit path, else the scan
Targets(d, file_path) ==
    IF file_path # NoPath THEN [exc |-> FALSE, found |-> {file_path}]
    ELSE _find_most_recent_file(d)

\* a variant without the handler of lines 207-209: the scan's exception leaves the call
ProcessUncaught(d, file_path) ==
    IF Targets(d, file_path).exc
    THEN {[raised |-> TRUE, target |-> NoPath, result |-> FailedResult]}
    ELSE {[raised |-> FALSE, target |-> t, result |-> _load_to_dataframe(d, t)] :
              t \in Targets(d, file_path).found}

\* lines 200-209: what a call may return
process_most_recent_file(d, file_path) ==
    IF Targets(d, file_path).exc
    THEN {[raised |-> FALSE, target |-> NoPath, result |-> FailedResult]}
    ELSE {[raised |-> FALSE, target |-> t, result |-> _load_to_dataframe(d, t)] :
              t \in Targets(d, file_path).found}

\* Path.unlink raises when the path is missing or is a directory
UnlinkRaises(d, name) == ~Exists(d, name) \/ FileAt(d, name).isdir

\* a variant that unlinks with missing_ok: a missing path counts as removed
DeleteMissingOk(d, file_path) ==
    IF Targets(d, file_path).exc
    THEN {[raised |-> FALSE, target |-> NoPath, ret |-> FALSE, dir |-> d]}
    ELSE {IF ~Exists(d, t) THEN [raised |-> FALSE, target |-> t, ret |-> TRUE, dir |-> d]
          ELSE IF FileAt(d, t).isdir
               THEN [raised |-> FALSE, target |-> t, ret |-> FALSE, dir |-> d]
               ELSE [raised |-> FALSE, target |-> t, ret |-> TRUE, dir |-> d \ {FileAt(d, t)}] :
              t \in Targets(d, file_path).found}

\* lines 217-226: what a call may return, with the directory it leaves
delete_most_recent_file(d, file_path) ==
    IF Targets(d, file_path).exc
    THEN {[raised |-> FALSE, target |-> NoPath, ret |-> FALSE, dir |-> d]}
    ELSE {IF UnlinkRaises(d, t)
          THEN [raised |-> FALSE, target |-> t, ret |-> FALSE, dir |-> d]
          ELSE [raised |-> FALSE, target |-> t, ret |-> TRUE, dir |-> d \ {FileAt(d, t)}] :
              t \in Targets(d, file_path).found}

(***************************************************************************)
(* The file names, workbooks and tables the model draws its inputs from.   *)
(***************************************************************************)
\* CONSULTA_TLP_PCP_CS_040126_1212.xlsx
NameA == PREFIX \o <<"_", "0", "4", "0", "1", "2", "6", "_", "1", "2", "1", "2", ".", "x", "l", "s", "x">>

\* CONSULTA_TLP_PCP_CS_310226_1212.xlsx: a token that is no date
NameBadDay == PREFIX \o <<"_", "3", "1", "0", "2", "2", "6", "_", "1", "2", "1", "2", ".", "x", "l", "s", "x">>

\* CONSULTA_TLP_PCP_CS.xlsx: no token
NameNoToken == PREFIX \o <<".", "x", "l", "s", "x">>

\* CONSULTA_TLP_PCP_CS_999999_9999_040126_1212.xlsx: the first token is no date
NameFirstBad == PREFIX \o <<"_", "9", "9", "9", "9", "9", "9", "_", "9", "9", "9", "9", "_", "0", "4", "0", "1", "2", "6", "_", "1", "2", "1", "2", ".", "x", "l", "s", "x">>

\* OUTRO_040126_1212.xlsx: not the prefix
NameOther == <<"O", "U", "T", "R", "O", "_", "0", "4", "0", "1", "2", "6", "_", "1", "2", "1", "2", ".", "x", "l", "s", "x">>

\* CONSULTA_TLP_PCP_CS_old: a directory
NameDir == PREFIX \o <<"_", "o", "l", "d">>

Names == {NameA, NameNoToken, NameOther, NameDir}

NormNames == {NameA, NameBadDay, NameNoToken, NameFirstBad}

PathArgs == {NoPath} \cup Names

TextIso == <<"2", "0", "2", "4", "-", "0", "1", "-", "0", "1">>

TextBr == <<"1", "5", "/", "0", "3", "/", "2", "0", "2", "4">>

TextNotADate == <<"n", "o", "t", " ", "a", " ", "d", "a", "t", "e">>

TextAbc == <<"a", "b", "c">>

TextNaT == <<"N", "a", "T">>

Stamp == <<2024, 5, 6, 7, 8, 9>>

IdCells == {NaN, IntC(0), IntC(123), IntC(456), FloatC(1), StrC(TextAbc)}

DateCells == {NaN, StrC(TextIso), StrC(TextBr), StrC(TextNotADate), TsC(Stamp), StrC(TextNaT)}

TextCells == {NaN, IntC(123), FloatC(1), StrC(TextAbc), StrC(TextNaT), TsC(Stamp)}

\* the subject column: its source name, its cells' values, its column-level fault
\* ("to_datetime": line 154 raises; "strftime": line 157 raises, after line 154 assigned)
Headers ==
    {[name |-> "VTA PK", fault |-> "none", from |-> IdCells],
     [name |-> "Data Criacao", fault |-> "none", from |-> DateCells],
     [name |-> "Data Criacao", fault |-> "to_datetime", from |-> DateCells],
     [name |-> "Data Criacao", fault |-> "strftime", from |-> DateCells],
     [name |-> "Status", fault |-> "none", from |-> TextCells],
     [name |-> "Foo", fault |-> "none", from |-> TextCells],
     [name |-> "dt_carga", fault |-> "none", from |-> TextCells]}

Fill(name, c, n) == [name |-> name, fault |-> "none", cells |-> [i \in 1..n |-> c]]

\* the columns beside the subject column, of n rows
Contexts(n) ==
    {<<>>,
     <<Fill("Raiz", IntC(7), n), Fill("Data de Baixa", StrC(TextIso), n), Fill("Bar", StrC(TextAbc), n)>>,
     <<Fill("Código Localidade", FloatC(1), n)>>}

TablesOf(h, n) ==
    {<<[name |-> h.name, fault |-> h.fault, cells |-> cells]>> \o ctx :
        cells \in [1..n -> h.from], ctx \in Contexts(n)}

Tables == UNION {TablesOf(h, n) : h \in Headers, n \in 0..MaxRows}

Corrupt == [ok |-> FALSE, cols |-> <<>>]

GoodBook == [ok |-> TRUE,
             cols |-> <<Fill("VTA PK", IntC(123), 1), Fill("Data Criacao", StrC(TextIso), 1),
                        Fill("Foo", StrC(TextAbc), 1)>>]

BadIdBook == [ok |-> TRUE, cols |-> <<Fill("VTA PK", StrC(TextAbc), 1)>>]

BooksOf(name) == IF name = NameDir THEN {Corrupt}
                 ELSE IF name = NameA THEN {GoodBook, BadIdBook, Corrupt}
                 ELSE {GoodBook}

FilesOf(name) ==
    {[name |-> name, mtime |-> m, isdir |-> (name = NameDir), book |-> b] :
        m \in 1..MaxMtime, b \in BooksOf(name)}

NoCall == [op |-> "none", arg |-> NoPath, raised |-> FALSE, target |-> NoPath,
           ok |-> FALSE, has_df |-> FALSE, df |-> <<>>]

(***************************************************************************)
(* The handler on a directory: any directory of at most MaxFiles entries,  *)
(* then any sequence of calls.                                             *)
(***************************************************************************)
Init ==
    /\ \E ns \in SUBSET Names :
          /\ Cardinality(ns) <= MaxFiles
          /\ \E pick \in [ns -> UNION {FilesOf(n) : n \in Names}] :
                /\ \A n \in ns : pick[n] \in FilesOf(n)
                /\ dir = {pick[n] : n \in ns}
    /\ last = NoCall

Locate ==
    LET r == _find_most_recent_file(dir)
    IN  /\ \E t \in (IF r.exc THEN {NoPath} ELSE r.found) :
              last' = [op |-> "locate", arg |-> NoPath, raised |-> r.exc, target |-> t,
                       ok |-> ~r.exc, has_df |-> FALSE, df |-> <<>>]
        /\ UNCHANGED dir

ProcessPath(p) ==
    /\ \E r \in process_most_recent_file(dir, p) :
          last' = [op |-> "process", arg |-> p, raised |-> r.raised, target |-> r.target,
                   ok |-> r.result.success, has_df |-> r.result.has_df, df |-> r.result.df]
    /\ UNCHANGED dir

Process == \E p \in PathArgs : ProcessPath(p)

Delete ==
    \E p \in PathArgs : \E r \in delete_most_recent_file(dir, p) :
        /\ last' = [op |-> "delete", arg |-> p, raised |-> r.raised, target |-> r.target,
                    ok |-> r.ret, has_df |-> FALSE, df |-> <<>>]
        /\ dir' = r.dir

Next == Locate \/ Process \/ Delete

Spec == Init /\ [][Next]_vars

(***************************************************************************)
(* The load of one workbook: any table under any of the names, processed.  *)
(***************************************************************************)
InitNorm ==
    /\ \E name \in NormNames, book \in {Corrupt} \cup {[ok |-> TRUE, cols |-> t] : t \in Tables} :
          dir = {[name |-> name, mtime |-> 1, isdir |-> FALSE, book |-> book]}
    /\ last = NoCall

\* the orchestrator hands the path it resolved to the handler
NextNorm == \E f \in dir : ProcessPath(f.name)

SpecNorm == InitNorm /\ [][NextNorm]_vars

(***************************************************************************)
(* What the claims speak of, read off the state: the file the last call    *)
(* worked on, its workbook as stored, and the table a process returned.    *)
(***************************************************************************)
Called(op) == last.op = op

TargetFile == FileAt(dir, last.target)

\* the last call was a process of a file that is there
Loaded == Called("process") /\ last.target # NoPath /\ Exists(dir, last.target)

SrcCols == TargetFile.book.cols

OutCols == last.df

\* the output column of source column i: two load columns lead
Out(i) == OutCols[i + 2]

IsIdSource(i) == InSeq(RenameColumn(SrcCols[i].name), id_cols)

IsDateSource(i) == InSeq(RenameColumn(SrcCols[i].name), DATE_COLUMNS)

\* the file name holds no token, or its first token is no DDMMYY_HHMM
TokenFails(name) == ~HasToken(name) \/ ~StrptimeOk(FirstToken(name))

(***************************************************************************)
(* C1.  process_most_recent_file never raises: it returns a result, which  *)
(* has success false and no table exactly when a step failed (the scan,    *)
(* the workbook parse, the timestamp extraction, the transformations), and *)
(* success true with a table otherwise.                                    *)
(***************************************************************************)
ScanFailed == last.arg = NoPath /\ Matching(dir) = {}

ParseFailed == ~Exists(dir, last.target) \/ TargetFile.isdir \/ ~TargetFile.book.ok

\* a value that is no integer: a fraction, a date, a text that is not one
NotAnInteger(c) == c.t \in {"float", "ts"} \/ (c.t = "str" /\ (c.s = <<>> \/ ~AllDigits(c.s)))

TransformFailed ==
    \/ \E i \in 1..Len(SrcCols) : SrcCols[i].name \in {"dt_carga", "dthr_carga"}
    \/ \E i \in 1..Len(SrcCols) :
          IsIdSource(i) /\ \E j \in 1..Len(SrcCols[i].cells) : NotAnInteger(SrcCols[i].cells[j])

StepFailed ==
    ScanFailed \/ ParseFailed \/ TokenFails(last.target) \/ TransformFailed

C1_ProcessAlwaysReturns ==
    Called("process") =>
        /\ ~last.raised
        /\ last.ok <=> ~StepFailed
        /\ last.ok <=> last.has_df
        /\ last.has_df <=> last.df # <<>>

C1_Witness ==
    /\ Called("process") /\ last.arg = NoPath
    /\ dir # {} /\ Matching(dir) = {}
    /\ ~last.ok /\ ~last.has_df

DeleteFails(d, arg, t) ==
    \/ arg = NoPath /\ \A f \in d : ~StartsWith(f.name, PREFIX)
    \/ t # NoPath /\ \A f \in d : f.name # t
    \/ t # NoPath /\ \E f \in d : f.name = t /\ f.isdir

C3_DeleteReturnsBoolean ==
    [][last'.op = "delete" =>
          /\ ~last'.raised
          /\ last'.ok <=> ~DeleteFails(dir, last'.arg, last'.target)
          /\ last'.ok => /\ \E f \in dir : f.name = last'.target
                         /\ \A f \in dir' : f.name # last'.target
          /\ ~last'.ok => dir' = dir]_vars

C3_Witness ==
    /\ Called("delete") /\ ~last.ok
    /\ last.arg # NoPath /\ Exists(dir, last.arg) /\ FileAt(dir, last.arg).isdir

(***************************************************************************)
(* C4.  After a load, every cell of an identifier column holds the plain   *)
(* decimal text of its non-zero source value or the missing marker; a      *)
(* missing or zero source cell becomes the missing marker whatever the     *)
(* other cells of the column hold.                                         *)
(***************************************************************************)
Decimal(n) ==
    CASE n = 7 -> <<"7">>
      [] n = 123 -> <<"1", "2", "3">>
      [] n = 456 -> <<"4", "5", "6">>

C4_IdentifierCells ==
    Loaded /\ last.ok =>
        \A i \in 1..Len(SrcCols) : IsIdSource(i) =>
            /\ Len(Out(i).cells) = Len(SrcCols[i].cells)
            /\ \A j \in 1..Len(SrcCols[i].cells) :
                  LET c == SrcCols[i].cells[j]
                  IN  IF c.t = "nan" \/ (c.t = "int" /\ c.n = 0)
                      THEN Out(i).cells[j] = None
                      ELSE c.t = "int" /\ Out(i).cells[j] = StrC(Decimal(c.n))

C4_Witness ==
    /\ Loaded /\ last.ok
    /\ \E i \in 1..Len(SrcCols) :
          /\ SrcCols[i].name = "VTA PK"
          /\ SrcCols[i].cells = <<IntC(123), IntC(0)>>
          /\ Out(i).cells = <<StrC(<<"1", "2", "3">>), None>>

(***************************************************************************)
(* C5.  After a load, every cell of a date column holds the text           *)
(* 'YYYY-MM-DD HH:MM:SS' of its value when the source cell parses as a     *)
(* date, and the missing marker when it is missing or does not parse.      *)
(***************************************************************************)
Iso(d) == Pad(d[1], 4) \o <<"-">> \o Pad(d[2], 2) \o <<"-">> \o Pad(d[3], 2) \o <<" ">>
          \o Pad(d[4], 2) \o <<":">> \o Pad(d[5], 2) \o <<":">> \o Pad(d[6], 2)

\* the date a source cell holds on its own; <<>> when it holds none
DateOf(c) == IF c.t = "ts" THEN c.d ELSE IF c.t = "str" THEN ParseAny(c.s) ELSE <<>>

C5_DateCells ==
    Loaded /\ last.ok =>
        \A i \in 1..Len(SrcCols) : IsDateSource(i) /\ SrcCols[i].fault = "none" =>
            \A j \in 1..Len(SrcCols[i].cells) :
                LET c == SrcCols[i].cells[j]
                IN  IF DateOf(c) # <<>>
                    THEN Out(i).cells[j] = StrC(Iso(DateOf(c)))
                    ELSE Out(i).cells[j] = None

(***************************************************************************)
(* C6.  A failure while transforming one column in the per-column steps (a *)
(* date column, an identifier column) is isolated: the load still returns  *)
(* success with the table, and the failing column is left as it was before *)
(* its transformation started.  The formula states the first part, for a   *)
(* failure raised by the cells of the column.                              *)
(***************************************************************************)
\* the column's transformation raises
ColumnFails(i) ==
    \/ IsDateSource(i) /\ SrcCols[i].fault # "none"
    \/ IsIdSource(i) /\ \E j \in 1..Len(SrcCols[i].cells) : NotAnInteger(SrcCols[i].cells[j])

\* the steps around the per-column ones succeed
OtherStepsSucceed ==
    /\ Loaded /\ TargetFile.book.ok /\ ~TokenFails(last.target)
    /\ \A i \in 1..Len(SrcCols) : SrcCols[i].name \notin {"dt_carga", "dthr_carga"}

\* no column-level fault is drawn: the failures left are those of the cells
NoFault == \A i \in 1..Len(SrcCols) : SrcCols[i].fault = "none"

C6_ColumnFailureIsolated ==
    OtherStepsSucceed /\ NoFault /\ (\E i \in 1..Len(SrcCols) : ColumnFails(i)) =>
        last.ok /\ last.has_df

(***************************************************************************)
(* C7.  Renaming is partial: a source column whose name is a key of the    *)
(* mapping appears in the output under its canonical name, any other under *)
(* its own name; no column is dropped.                                     *)
(***************************************************************************)
C7_RenameIsPartial ==
    Loaded /\ last.ok =>
        /\ Len(OutCols) = Len(SrcCols) + 2
        /\ \A i \in 1..Len(SrcCols) :
              LET n == SrcCols[i].name
              IN  /\ n \in DOMAIN COLUMN_MAPPING => Out(i).name = COLUMN_MAPPING[n]
                  /\ n \notin DOMAIN COLUMN_MAPPING => Out(i).name = n
                  /\ n = "Foo" => Out(i).name = "Foo"
                  /\ n = "Raiz" => Out(i).name = "raiz"

C7_Witness ==
    /\ Loaded /\ last.ok
    /\ Len(SrcCols) = 4
    /\ SrcCols[1].name = "Foo" /\ Out(1).name = "Foo"
    /\ SrcCols[2].name = "Raiz" /\ Out(2).name = "raiz"
    /\ SrcCols[4].name = "Bar" /\ Out(4).name = "Bar"

(***************************************************************************)
(* C8.  The cleanup of line 170 is idempotent, and after one pass no cell  *)
(* holds a library missing value or one of the texts "nan", "None", "",    *)
(* "NaT".                                                                  *)
(***************************************************************************)
\* the table the cleanup is given at line 170
CleanupInput ==
    IdStep(DateStep(InsertLoad(Rename(read_excel(TargetFile.book).cols),
                               _extract_datetime_from_filename(last.target))))

IsSentinel(c) ==
    \/ c.t \in {"nan", "nat"}
    \/ c.t = "str" /\ c.s \in {<<"n", "a", "n">>, <<"N", "o", "n", "e">>, <<>>, <<"N", "a", "T">>}

C8_CleanupIdempotent ==
    Loaded /\ last.ok /\ NoFault =>
        /\ Cleanup(Cleanup(CleanupInput)) = Cleanup(CleanupInput)
        /\ \A i \in 1..Len(CleanupInput) :
              \A j \in 1..Len(CleanupInput[i].cells) :
                  ~IsSentinel(Cleanup(CleanupInput)[i].cells[j])

(***************************************************************************)
(* C9.  A file name with no token, or whose first token is no date, makes  *)
(* the extraction raise and the load fail with no table, whatever the      *)
(* workbook holds; with a valid token every row of the table carries the   *)
(* same load date and load date-time in the two leading columns.           *)
(***************************************************************************)
C9_LoadTimestamp ==
    Loaded =>
        /\ TokenFails(last.target) =>
              /\ _extract_datetime_from_filename(last.target).exc
              /\ ~last.ok /\ ~last.has_df
        /\ last.ok =>
              /\ ~TokenFails(last.target)
              /\ OutCols[1].name = "dt_carga" /\ OutCols[2].name = "dthr_carga"
              /\ Len(OutCols[1].cells) = NRows(SrcCols)
              /\ Len(OutCols[2].cells) = NRows(SrcCols)
              /\ \A j \in 1..NRows(SrcCols) :
                    /\ OutCols[1].cells[j] =
                          StrC(DisplayDate(StrptimeFields(FirstToken(last.target))))
                    /\ OutCols[2].cells[j] =
                          StrC(DisplayDatetime(StrptimeFields(FirstToken(last.target))))
                    /\ last.target = NameA =>
                          /\ OutCols[1].cells[j].s = <<"2", "0", "2", "6", "-", "0", "1", "-", "0", "4">>
                          /\ OutCols[2].cells[j].s = <<"2", "0", "2", "6", "-", "0", "1", "-", "0", "4", " ", "1", "2", ":", "1", "2">>

C9_Witness ==
    /\ Loaded /\ last.target = NameFirstBad
    /\ TargetFile.book.ok /\ NRows(SrcCols) = 2
    /\ \A i \in 1..Len(SrcCols) : ~ColumnFails(i) /\ SrcCols[i].name # "dt_carga"
    /\ ~last.ok /\ ~last.has_df

(***************************************************************************)
(* C10.  The directory changes only through a delete that returns true,    *)
(* which removes exactly one file: the explicit path when one is given,    *)
(* else a matching file of the latest modification time; after such a      *)
(* delete without a path the scan returns a latest of the matching files   *)
(* that remain, or fails when none remains.                                *)
(***************************************************************************)
LatestOf(fs) == {f.name : f \in {g \in fs : \A h \in fs : h.mtime <= g.mtime}}

C10_OnlyDeleteRemoves ==
    [][/\ dir' # dir =>
             /\ last'.op = "delete" /\ last'.ok
             /\ \E f \in dir :
                   /\ dir' = dir \ {f}
                   /\ f.name = last'.target
                   /\ last'.arg # NoPath => f.name = last'.arg
                   /\ last'.arg = NoPath =>
                         /\ StartsWith(f.name, PREFIX)
                         /\ \A g \in dir : StartsWith(g.name, PREFIX) => g.mtime <= f.mtime
                         /\ LET rest == {g \in dir : StartsWith(g.name, PREFIX)} \ {f}
                            IN  /\ _find_most_recent_file(dir').exc <=> rest = {}
                                /\ _find_most_recent_file(dir').found = LatestOf(rest)
       /\ last'.op = "delete" /\ last'.ok => Cardinality(dir') = Cardinality(dir) - 1
       /\ last'.op \in {"process", "locate"} => dir' = dir
       /\ last'.op = "delete" /\ ~last'.ok => dir' = dir]_vars

C10_Witness ==
    /\ Called("delete") /\ last.ok /\ last.arg = NoPath
    /\ ~Exists(dir, last.target)
    /\ \E g, h \in dir : StartsWith(g.name, PREFIX) /\ ~StartsWith(h.name, PREFIX)
                         /\ h.mtime > g.mtime

=============================================================================
